---- MODULE Spec2Model ----
(***************************************************************************)
(* Model of the filling-line scheduler (package filling_schedule_optimizer).*)
(*                                                                         *)
(* Four strategies turn a list of lots into a timeline of ScheduleEntry    *)
(* records and a metrics mapping: fifo.generate_schedule,                  *)
(* spt_only.generate_schedule, hybrid_heuristic.generate_schedule and      *)
(* batch_binpack.batch_binpack_schedule.  Every loop iteration of a        *)
(* strategy is one action; `schedule` at pc = "done" is the returned       *)
(* timeline and `metrics` the returned mapping.                            *)
(*                                                                         *)
(* Numbers.  Every quantity the code holds in minutes or hours             *)
(* (duration_minutes, run_time, total_changeover, hours_since_reclean,     *)
(* fill_time, ...) is held here as an integer number of ticks, one tick    *)
(* being 1 / 332 of a minute (332 is the shipped                           *)
(* FILLING_RATE_VIALS_PER_MIN), so that lot.vials / rate is exact for the  *)
(* rates 332 and -332: a fill of v vials lasts v ticks at the shipped      *)
(* rate.  Timestamps are datetime values; they are held as the timedelta   *)
(* since `now`, a record [s, us] of whole seconds and microseconds, and    *)
(* datetime.timedelta(minutes = x) rounds x to the nearest microsecond as  *)
(* Python does.                                                            *)
(***************************************************************************)
EXTENDS Integers, Sequences, FiniteSets, TLC

(* ------------------------------ config.py ------------------------------ *)
FILLING_RATE_VIALS_PER_MIN == 332
CHANGEOVER_SAME_TYPE_HOURS == 4
CHANGEOVER_DIFF_TYPE_HOURS == 8
RECLEAN_CYCLE_HOURS == 24
MAX_CONTINUOUS_RUN_HOURS == 120
BATCH_BINPACK_CLEAN_WINDOW_HOURS == 120
BATCH_BINPACK_SMALL_LOT_THRESHOLD == 50000

(* ------------------------------- bounds -------------------------------- *)
\* longest input list
MaxLots == 3
\* passes of the bin-pack window loop followed beyond one per lot (the loop
\* does not end when a lot is larger than the clean window)
MaxIdleWindows == 2
\* lot types and lot sizes the inputs are drawn from: two small lots
\* (below the small-lot threshold), one of half a clean window, one larger
\* than a clean window and than the maximal continuous run
LotTypes == {"A", "B"}
VialChoices == {10000, 20000, 1200000, 2400000}
\* lot ids, by position in the input (ids are unique and non-empty)
LotIds == <<"L1", "L2", "L3", "L4", "L5">>

\* Python's None, in the fields lot_id, lot_type and last_type
None == "None"

(* -------------------------------- state -------------------------------- *)
VARIABLES
    filling_rate,         \* config.FILLING_RATE_VIALS_PER_MIN as the run finds it
    changeover_same_type_hours,   \* config.CHANGEOVER_SAME_TYPE_HOURS as the run finds it
    changeover_diff_type_hours,   \* config.CHANGEOVER_DIFF_TYPE_HOURS as the run finds it
    lots,                 \* the input list
    strategy,             \* the strategy called: "fifo", "spt_only", "hybrid_heuristic", "batch_binpack"
    pc,                   \* position in the strategy; "error" once an exception has left it
    schedule,             \* the timeline
    current_time,
    total_changeover, total_reclean, run_time,
    last_type, hours_since_reclean,
    group_idx, i,         \* loop indices (0-based, as in the source)
    grouped,              \* batch_binpack: [keys |-> types in insertion order, vals |-> type -> lots]
    metrics               \* the returned metrics, once pc = "done"

vars == <<filling_rate, changeover_same_type_hours, changeover_diff_type_hours, lots, strategy, pc, schedule, current_time, total_changeover,
          total_reclean, run_time, last_type, hours_since_reclean, group_idx, i, grouped,
          metrics>>

(* --------------------------- units and time ---------------------------- *)
\* h hours, in ticks
HoursToTicks(h) == h * 60 * FILLING_RATE_VIALS_PER_MIN

\* datetime.timedelta(hours = h), h a whole number
timedelta_hours(h) == [s |-> h * 3600, us |-> 0]

\* datetime.timedelta(minutes = t / FILLING_RATE_VIALS_PER_MIN): the value
\* rounded to the nearest microsecond, ties to even
timedelta_minutes(t) ==
    LET n  == t * 60
        s  == n \div FILLING_RATE_VIALS_PER_MIN
        r  == n % FILLING_RATE_VIALS_PER_MIN
        q  == (r * 1000000) \div FILLING_RATE_VIALS_PER_MIN
        f  == (r * 1000000) % FILLING_RATE_VIALS_PER_MIN
        us == IF 2 * f > FILLING_RATE_VIALS_PER_MIN THEN q + 1
              ELSE IF 2 * f = FILLING_RATE_VIALS_PER_MIN THEN q + (q % 2)
              ELSE q
    IN  IF us = 1000000 THEN [s |-> s + 1, us |-> 0] ELSE [s |-> s, us |-> us]

\* datetime + timedelta
TdAdd(a, b) ==
    IF a.us + b.us >= 1000000
    THEN [s |-> a.s + b.s + 1, us |-> a.us + b.us - 1000000]
    ELSE [s |-> a.s + b.s, us |-> a.us + b.us]

\* datetime - datetime, for a >= b
TdSub(a, b) ==
    IF a.us >= b.us
    THEN [s |-> a.s - b.s, us |-> a.us - b.us]
    ELSE [s |-> a.s - b.s - 1, us |-> a.us + 1000000 - b.us]

\* a < b
TdLess(a, b) == a.s < b.s \/ (a.s = b.s /\ a.us < b.us)

\* the start of the schedule, SCHEDULE_START_DATETIME
now == [s |-> 0, us |-> 0]

\* x / config.FILLING_RATE_VIALS_PER_MIN for a count x of vials, in ticks; the
\* division raises ZeroDivisionError when the rate is 0
PerFillingRate(x) == (x * FILLING_RATE_VIALS_PER_MIN) \div filling_rate

(* ------------------------------ models.py ------------------------------ *)
Lot(id, type, vials) == [id |-> id, type |-> type, vials |-> vials]

ScheduleEntry(event_type, lot_id, lot_type, start_time, end_time, duration_minutes, notes) ==
    [event_type |-> event_type, lot_id |-> lot_id, lot_type |-> lot_type,
     start_time |-> start_time, end_time |-> end_time,
     duration_minutes |-> duration_minutes, notes |-> notes]

\* RecleanEntry with duration_minutes left in hours (the `* 60` forgotten)
RecleanEntryInHours(t, notes) ==
    ScheduleEntry("reclean", None, None, t,
                  TdAdd(t, timedelta_hours(RECLEAN_CYCLE_HOURS)),
                  RECLEAN_CYCLE_HOURS * FILLING_RATE_VIALS_PER_MIN, notes)

\* the Reclean entry the strategies append at current_time
RecleanEntry(t, notes) ==
    ScheduleEntry("reclean", None, None, t,
                  TdAdd(t, timedelta_hours(RECLEAN_CYCLE_HOURS)),
                  HoursToTicks(RECLEAN_CYCLE_HOURS), notes)

\* ChangeoverEntry that always lasts CHANGEOVER_SAME_TYPE_HOURS
ChangeoverEntrySameType(t, lot, changeover) ==
    ScheduleEntry("changeover", None, lot.type, t,
                  TdAdd(t, timedelta_hours(CHANGEOVER_SAME_TYPE_HOURS)),
                  HoursToTicks(CHANGEOVER_SAME_TYPE_HOURS), "Changeover to")

\* the Changeover entry to `lot`, of `changeover` hours
ChangeoverEntry(t, lot, changeover) ==
    ScheduleEntry("changeover", None, lot.type, t,
                  TdAdd(t, timedelta_hours(changeover)),
                  HoursToTicks(changeover), "Changeover to")

\* fill_minutes = lot.vials / config.FILLING_RATE_VIALS_PER_MIN, in ticks
fill_minutes(lot) == PerFillingRate(lot.vials)

\* FillEntry with end_time cut to whole seconds while current_time advances
\* by the full timedelta
FillEntryWholeSeconds(t, lot) ==
    ScheduleEntry("fill", lot.id, lot.type, t,
                  TdAdd(t, [s |-> timedelta_minutes(fill_minutes(lot)).s, us |-> 0]),
                  fill_minutes(lot), "Filling lot")

\* the Fill entry of `lot`
FillEntry(t, lot) ==
    ScheduleEntry("fill", lot.id, lot.type, t,
                  TdAdd(t, timedelta_minutes(fill_minutes(lot))),
                  fill_minutes(lot), "Filling lot")

\* the metrics mapping a strategy returns
Metrics(total_time, changeover_total, reclean_total, fill_total) ==
    [total_time |-> total_time, total_changeover |-> changeover_total,
     total_reclean |-> reclean_total, total_fill |-> fill_total]

\* the lists of at most MaxLots valid lots, ids by position
LotLists ==
    UNION { { [k \in 1..n |-> Lot(LotIds[k], f[k][1], f[k][2])] :
                f \in [1..n -> LotTypes \X VialChoices] } : n \in 0..MaxLots }

\* the filling rates of the configurations that are not the shipped one: a
\* negative rate and 0
RateChoices == {0 - FILLING_RATE_VIALS_PER_MIN, 0}

\* the state at the call of a strategy on a list of valid lots
Start ==
    /\ lots \in LotLists
    /\ strategy = None
    /\ pc = "start"
    /\ schedule = <<>>
    /\ current_time = now
    /\ total_changeover = 0
    /\ total_reclean = 0
    /\ run_time = 0
    /\ last_type = None
    /\ hours_since_reclean = 0
    /\ group_idx = 0
    /\ i = 0
    /\ grouped = [keys |-> <<>>, vals |-> <<>>]
    /\ metrics = <<>>

\* the changeover hours of the shipped configuration
ShippedChangeovers ==
    /\ changeover_same_type_hours = CHANGEOVER_SAME_TYPE_HOURS
    /\ changeover_diff_type_hours = CHANGEOVER_DIFF_TYPE_HOURS

\* a call under the shipped configuration
Init == filling_rate = FILLING_RATE_VIALS_PER_MIN /\ ShippedChangeovers /\ Start

\* a call under a configuration whose filling rate is zero or negative
ConfigInit == filling_rate \in RateChoices /\ ShippedChangeovers /\ Start

\* pairs <<same-type hours, different-type hours>> of configurations that
\* are not the shipped one: no changeover time at all, and a same-type
\* changeover that is much longer than a different-type one
ChangeoverChoices == { <<0, 0>>, <<60, 8>> }

\* a call under a configuration with other changeover hours
ChangeoverInit ==
    /\ filling_rate = FILLING_RATE_VIALS_PER_MIN
    /\ \E c \in ChangeoverChoices :
         /\ changeover_same_type_hours = c[1]
         /\ changeover_diff_type_hours = c[2]
    /\ Start

(* ------------------------- shared loop pieces -------------------------- *)
\* the stable ascending sort of s by keys[k], the key of s[k] (list.sort / sorted)
Rank(keys, k) ==
    1 + Cardinality({ j \in DOMAIN keys : keys[j] < keys[k] \/ (keys[j] = keys[k] /\ j < k) })

SortedBy(s, keys) ==
    [p \in 1..Len(s) |-> s[CHOOSE k \in 1..Len(s) : Rank(keys, k) = p]]

\* the prologue of every strategy: the initial reclean
Prologue(name) ==
    /\ pc = "start"
    /\ strategy' = name
    /\ schedule' = <<RecleanEntry(now, "Initial line reclean")>>
    /\ current_time' = TdAdd(now, timedelta_hours(RECLEAN_CYCLE_HOURS))
    /\ UNCHANGED <<filling_rate, changeover_same_type_hours, changeover_diff_type_hours,
                   lots, total_changeover, total_reclean, run_time, last_type,
                   hours_since_reclean, group_idx, i, metrics>>

\* LoopBody without `hours_since_reclean = 0` after the reclean
LoopBodyNoReset(lot, reclean, has_changeover, changeover) ==
    LET t0 == current_time
        s1 == IF reclean THEN Append(schedule, RecleanEntry(t0, "Line reclean")) ELSE schedule
        t1 == IF reclean THEN TdAdd(t0, timedelta_hours(RECLEAN_CYCLE_HOURS)) ELSE t0
        h1 == hours_since_reclean
        s2 == IF has_changeover THEN Append(s1, ChangeoverEntry(t1, lot, changeover)) ELSE s1
        t2 == IF has_changeover THEN TdAdd(t1, timedelta_hours(changeover)) ELSE t1
        h2 == IF has_changeover THEN h1 + HoursToTicks(changeover) ELSE h1
    IN  /\ schedule' = Append(s2, FillEntry(t2, lot))
        /\ current_time' = TdAdd(t2, timedelta_minutes(fill_minutes(lot)))
        /\ total_reclean' = IF reclean THEN total_reclean + HoursToTicks(RECLEAN_CYCLE_HOURS)
                            ELSE total_reclean
        /\ total_changeover' = IF has_changeover THEN total_changeover + HoursToTicks(changeover)
                               ELSE total_changeover
        /\ run_time' = run_time + fill_minutes(lot)
        /\ hours_since_reclean' = h2 + fill_minutes(lot)

\* One iteration of the per-lot loop body shared by fifo, spt_only and
\* hybrid_heuristic: an optional reclean, an optional changeover of
\* `changeover` hours, the fill of `lot`.
LoopBody(lot, reclean, has_changeover, changeover) ==
    LET t0 == current_time
        s1 == IF reclean THEN Append(schedule, RecleanEntry(t0, "Line reclean")) ELSE schedule
        t1 == IF reclean THEN TdAdd(t0, timedelta_hours(RECLEAN_CYCLE_HOURS)) ELSE t0
        h1 == IF reclean THEN 0 ELSE hours_since_reclean
        s2 == IF has_changeover THEN Append(s1, ChangeoverEntry(t1, lot, changeover)) ELSE s1
        t2 == IF has_changeover THEN TdAdd(t1, timedelta_hours(changeover)) ELSE t1
        h2 == IF has_changeover THEN h1 + HoursToTicks(changeover) ELSE h1
    IN  /\ schedule' = Append(s2, FillEntry(t2, lot))
        /\ current_time' = TdAdd(t2, timedelta_minutes(fill_minutes(lot)))
        /\ total_reclean' = IF reclean THEN total_reclean + HoursToTicks(RECLEAN_CYCLE_HOURS)
                            ELSE total_reclean
        /\ total_changeover' = IF has_changeover THEN total_changeover + HoursToTicks(changeover)
                               ELSE total_changeover
        /\ run_time' = run_time + fill_minutes(lot)
        /\ hours_since_reclean' = h2 + fill_minutes(lot)

\* total_time and the metrics dictionary, then return
Return ==
    /\ metrics' = Metrics(TdSub(current_time, now), total_changeover, total_reclean, run_time)
    /\ pc' = "done"
    /\ UNCHANGED <<filling_rate, changeover_same_type_hours, changeover_diff_type_hours,
                   lots, strategy, schedule, current_time, total_changeover, total_reclean,
                   run_time, last_type, hours_since_reclean, group_idx, i, grouped>>

\* an exception (the ZeroDivisionError of a division by the filling rate)
\* leaves the strategy `name`: the call returns nothing
Raise(name) ==
    /\ strategy' = name
    /\ pc' = "error"
    /\ UNCHANGED <<filling_rate, changeover_same_type_hours, changeover_diff_type_hours,
                   lots, schedule, current_time, total_changeover, total_reclean,
                   run_time, last_type, hours_since_reclean, group_idx, i, grouped, metrics>>

(* ------------------------------- fifo.py ------------------------------- *)
\* EnumerateAt walking the list from its end
EnumerateReversed(ls, idx) == ls[Len(ls) - idx]

\* the lot that `for i, lot in enumerate(ls)` yields at index idx
EnumerateAt(ls, idx) == ls[idx + 1]

\* fifo_reclean with the run-length test left out
fifo_reclean_every_lot(hours, idx, n) == idx < n - 1 /\ idx # 0

\* the condition of the reclean `if` of the loop, at index idx of n lots
fifo_reclean(hours, idx, n) ==
    /\ hours >= HoursToTicks(MAX_CONTINUOUS_RUN_HOURS)
    /\ idx < n - 1
    /\ idx # 0

FifoStart ==
    /\ Prologue("fifo")
    /\ pc' = "fifo_loop"
    /\ UNCHANGED grouped

FifoStep ==
    /\ pc = "fifo_loop"
    /\ i < Len(lots)
    /\ filling_rate # 0
    /\ LET lot == EnumerateAt(lots, i)
           reclean == fifo_reclean(hours_since_reclean, i, Len(lots))
           changeover == IF lot.type = last_type THEN changeover_same_type_hours
                         ELSE changeover_diff_type_hours
       IN  /\ LoopBody(lot, reclean, last_type # None, changeover)
           /\ last_type' = lot.type
    /\ i' = i + 1
    /\ UNCHANGED <<filling_rate, changeover_same_type_hours, changeover_diff_type_hours,
                   lots, strategy, pc, group_idx, grouped, metrics>>

\* the division of line 71 raises for the first lot
FifoRaise ==
    /\ pc = "fifo_loop"
    /\ i < Len(lots)
    /\ filling_rate = 0
    /\ Raise("fifo")

FifoReturn ==
    /\ pc = "fifo_loop"
    /\ i = Len(lots)
    /\ Return

(* ----------------------------- spt_only.py ----------------------------- *)
\* lots_sorted with the sort reversed (longest fill first)
lots_sorted_descending == SortedBy(lots, [k \in 1..Len(lots) |-> 0 - fill_minutes(lots[k])])

\* lots_sorted = sorted(lots, key = lot.vials / FILLING_RATE_VIALS_PER_MIN)
lots_sorted == SortedBy(lots, [k \in 1..Len(lots) |-> fill_minutes(lots[k])])

SptStart ==
    /\ filling_rate # 0 \/ lots = <<>>
    /\ Prologue("spt_only")
    /\ pc' = "spt_loop"
    /\ UNCHANGED grouped

\* the sort key of line 14 raises for the first lot
SptRaise ==
    /\ pc = "start"
    /\ filling_rate = 0
    /\ lots # <<>>
    /\ Raise("spt_only")

SptStep ==
    /\ pc = "spt_loop"
    /\ i < Len(lots_sorted)
    /\ LET lot == EnumerateAt(lots_sorted, i)
           reclean == i = 0 \/ hours_since_reclean >= HoursToTicks(MAX_CONTINUOUS_RUN_HOURS)
           changeover == IF lot.type = last_type THEN changeover_same_type_hours
                         ELSE changeover_diff_type_hours
       IN  /\ LoopBody(lot, reclean, last_type # None, changeover)
           /\ last_type' = lot.type
    /\ i' = i + 1
    /\ UNCHANGED <<filling_rate, changeover_same_type_hours, changeover_diff_type_hours,
                   lots, strategy, pc, group_idx, grouped, metrics>>

SptReturn ==
    /\ pc = "spt_loop"
    /\ i = Len(lots_sorted)
    /\ Return

(* ------------------------- hybrid_heuristic.py -------------------------- *)
\* the keys of a defaultdict(list) filled from ls, in insertion order: the
\* types of ls in order of first appearance
GroupKeys(ls) ==
    LET first == SelectSeq([k \in 1..Len(ls) |-> k],
                           LAMBDA k : \A j \in 1..(k - 1) : ls[j].type # ls[k].type)
    IN  [p \in 1..Len(first) |-> ls[first[p]].type]

\* the list the grouping loop builds for type t: the lots of type t, in input order
GroupLots(ls, t) == SelectSeq(ls, LAMBDA l : l.type = t)

\* type_groups with every lot appended to every group
type_groups_ungrouped(t) == SortedBy(lots, [k \in 1..Len(lots) |-> fill_minutes(lots[k])])

\* type_groups[t] after step 2: sorted by fill time, shortest first
type_groups(t) ==
    LET g == GroupLots(lots, t)
    IN  SortedBy(g, [k \in 1..Len(g) |-> fill_minutes(g[k])])

\* sum(lot.vials for lot in ls)
RECURSIVE SumVials(_)
SumVials(ls) == IF ls = <<>> THEN 0 ELSE Head(ls).vials + SumVials(Tail(ls))

\* group_order with the smallest group first
group_order_ascending ==
    LET keys == GroupKeys(lots)
    IN  SortedBy(keys, [k \in 1..Len(keys) |-> SumVials(type_groups(keys[k]))])

\* group_order = sorted(type_groups.keys(), key = -sum of the group's vials)
group_order ==
    LET keys == GroupKeys(lots)
    IN  SortedBy(keys, [k \in 1..Len(keys) |-> 0 - SumVials(type_groups(keys[k]))])

HybridStart ==
    /\ filling_rate # 0 \/ lots = <<>>
    /\ Prologue("hybrid_heuristic")
    /\ pc' = "hybrid_loop"
    /\ UNCHANGED grouped

\* the sort key of line 21 raises for the first lot
HybridRaise ==
    /\ pc = "start"
    /\ filling_rate = 0
    /\ lots # <<>>
    /\ Raise("hybrid_heuristic")

HybridStep ==
    /\ pc = "hybrid_loop"
    /\ group_idx < Len(group_order)
    /\ LET lots_in_group == type_groups(group_order[group_idx + 1])
           lot == EnumerateAt(lots_in_group, i)
           first == group_idx = 0 /\ i = 0
           reclean == first \/ hours_since_reclean >= HoursToTicks(MAX_CONTINUOUS_RUN_HOURS)
           changeover == IF i = 0 THEN changeover_diff_type_hours
                         ELSE changeover_same_type_hours
       IN  /\ LoopBody(lot, reclean, ~first, changeover)
           /\ IF i + 1 < Len(lots_in_group)
              THEN i' = i + 1 /\ group_idx' = group_idx
              ELSE i' = 0 /\ group_idx' = group_idx + 1
    /\ UNCHANGED <<filling_rate, changeover_same_type_hours, changeover_diff_type_hours,
                   lots, strategy, pc, last_type, grouped, metrics>>

HybridReturn ==
    /\ pc = "hybrid_loop"
    /\ group_idx = Len(group_order)
    /\ Return

(* --------------------------- batch_binpack.py --------------------------- *)
\* calculate_fill_time(lot), in ticks
calculate_fill_time(lot) == PerFillingRate(lot.vials)

\* None, where a lot is expected (previous_lot, prev_lot)
NoLot == Lot(None, None, 0)

\* calculate_changeover(prev_lot, lot), in hours
calculate_changeover(prev_lot, lot) ==
    IF prev_lot = NoLot THEN 0
    ELSE IF prev_lot.type = lot.type THEN changeover_same_type_hours
    ELSE changeover_diff_type_hours

\* steps 1 and 2: the dictionary `grouped`, every list sorted by size descending
Grouped(ls) ==
    LET keys == GroupKeys(ls)
    IN  [keys |-> keys,
         vals |-> [t \in {keys[k] : k \in 1..Len(keys)} |->
                     LET g == GroupLots(ls, t)
                     IN  SortedBy(g, [k \in 1..Len(g) |-> 0 - g[k].vials])]]

\* any(grouped.values())
AnyGrouped(g) == \E t \in DOMAIN g.vals : g.vals[t] # <<>>

\* list.pop(k), k 1-based
RemoveAt(s, k) == SubSeq(s, 1, k - 1) \o SubSeq(s, k + 1, Len(s))

\* the loop `while i < len(lots_of_type)` from position k (1-based), with
\* w = [window |-> current_window, time |-> current_window_time, previous_lot]
RECURSIVE ScanType(_, _, _)
ScanType(lots_of_type, k, w) ==
    IF k > Len(lots_of_type) THEN [rest |-> lots_of_type, w |-> w]
    ELSE LET lot == lots_of_type[k]
             fill_time == calculate_fill_time(lot)
             changeover_time == calculate_changeover(w.previous_lot, lot)
         IN  IF w.time + fill_time + HoursToTicks(changeover_time)
                   <= HoursToTicks(BATCH_BINPACK_CLEAN_WINDOW_HOURS)
             THEN ScanType(RemoveAt(lots_of_type, k), k,
                           [window |-> Append(w.window, [lot |-> lot, changeover_time |-> changeover_time]),
                            time |-> w.time + fill_time + HoursToTicks(changeover_time),
                            previous_lot |-> lot])
             ELSE ScanType(lots_of_type, k + 1, w)

\* the loop `for t in list(grouped.keys())` from position k of the key snapshot
RECURSIVE ScanGroups(_, _, _, _)
ScanGroups(keys, k, g, w) ==
    IF k > Len(keys) THEN [grouped |-> g, w |-> w]
    ELSE LET t == keys[k]
             r == ScanType(g.vals[t], 1, w)
             g1 == IF r.rest = <<>>
                   THEN [keys |-> SelectSeq(g.keys, LAMBDA x : x # t),
                         vals |-> [x \in (DOMAIN g.vals) \ {t} |-> g.vals[x]]]
                   ELSE [keys |-> g.keys, vals |-> [g.vals EXCEPT ![t] = r.rest]]
         IN  ScanGroups(keys, k + 1, g1, r.w)

\* the loop `for idx, (lot, changeover_time) in enumerate(current_window)`
\* from idx (0-based), appending to sched at time t
RECURSIVE EmitWindow(_, _, _, _)
EmitWindow(win, idx, sched, t) ==
    IF idx >= Len(win) THEN [schedule |-> sched, current_time |-> t]
    ELSE LET lot == win[idx + 1].lot
             changeover_time == win[idx + 1].changeover_time
             last == sched[Len(sched)]
             prev_lot == IF last.lot_id = None THEN None ELSE last.lot_type
             emit == IF idx = 0 /\ sched # <<>>
                     THEN prev_lot # None /\ lot.type # prev_lot
                     ELSE changeover_time > 0
             s1 == IF emit THEN Append(sched, ChangeoverEntry(t, lot, changeover_time)) ELSE sched
             t1 == IF emit THEN TdAdd(t, timedelta_hours(changeover_time)) ELSE t
         IN  EmitWindow(win, idx + 1, Append(s1, FillEntry(t1, lot)),
                        TdAdd(t1, timedelta_minutes(calculate_fill_time(lot))))

\* the number of entries of a kind in a timeline
NumEntries(s, kind) == Cardinality({k \in 1..Len(s) : s[k].event_type = kind})

BinpackStart ==
    /\ Prologue("batch_binpack")
    /\ grouped' = Grouped(lots)
    /\ pc' = IF AnyGrouped(Grouped(lots)) THEN "greedy" ELSE "local_search"

\* one pass of `while any(grouped.values())`: fill a window, schedule it,
\* add a reclean if lots remain
GreedyWindow ==
    /\ pc = "greedy"
    /\ AnyGrouped(grouped)
    /\ filling_rate # 0
    /\ NumEntries(schedule, "reclean") < 1 + Len(lots) + MaxIdleWindows
    /\ LET scan == ScanGroups(grouped.keys, 1, grouped,
                              [window |-> <<>>, time |-> 0, previous_lot |-> NoLot])
           out  == EmitWindow(scan.w.window, 0, schedule, current_time)
           more == AnyGrouped(scan.grouped)
       IN  /\ grouped' = scan.grouped
           /\ schedule' = IF more
                          THEN Append(out.schedule, RecleanEntry(out.current_time, "Line reclean"))
                          ELSE out.schedule
           /\ current_time' = IF more
                              THEN TdAdd(out.current_time, timedelta_hours(RECLEAN_CYCLE_HOURS))
                              ELSE out.current_time
           /\ pc' = IF more THEN "greedy" ELSE "local_search"
    /\ UNCHANGED <<filling_rate, changeover_same_type_hours, changeover_diff_type_hours,
                   lots, strategy, total_changeover, total_reclean, run_time, last_type,
                   hours_since_reclean, group_idx, i, metrics>>

\* calculate_fill_time raises for the first lot the window loop looks at
BinpackRaise ==
    /\ pc = "greedy"
    /\ AnyGrouped(grouped)
    /\ filling_rate = 0
    /\ Raise("batch_binpack")

\* sum(e.duration_minutes or 0 for e in s if e.event_type == kind)
RECURSIVE SumDuration(_, _)
SumDuration(s, kind) ==
    IF s = <<>> THEN 0
    ELSE (IF Head(s).event_type = kind THEN Head(s).duration_minutes ELSE 0)
         + SumDuration(Tail(s), kind)

\* objective(sched): makespan + changeover + reclean, as a timedelta
objective(sched) ==
    LET makespan == IF sched # <<>>
                    THEN TdSub(sched[Len(sched)].end_time, sched[1].start_time)
                    ELSE [s |-> 0, us |-> 0]
    IN  TdAdd(makespan, timedelta_minutes(SumDuration(sched, "changeover")
                                          + SumDuration(sched, "reclean")))

\* fill_indices
fill_indices(s) == SelectSeq([k \in 1..Len(s) |-> k], LAMBDA k : s[k].event_type = "fill")

\* Swapped that copies entry a over entry b and keeps entry a
SwappedOverwrite(s, a, b) == [s EXCEPT ![b] = s[a]]

\* new_schedule: entries a and b exchanged
Swapped(s, a, b) == [s EXCEPT ![a] = s[b], ![b] = s[a]]

\* Improves with `<=` for `<`
ImprovesOrEqual(new_schedule, old_schedule) ==
    ~TdLess(objective(old_schedule), objective(new_schedule))

\* objective(new_schedule) < objective(schedule)
Improves(new_schedule, old_schedule) == TdLess(objective(new_schedule), objective(old_schedule))

\* the positions idx of fill_indices whose swap the for loop would accept
ImprovingSwaps(s) ==
    LET fi == fill_indices(s)
    IN  {idx \in 1..(Len(fi) - 1) : Improves(Swapped(s, fi[idx], fi[idx + 1]), s)}

\* a pass of `while improved` that accepts the first improving swap
LocalSearchSwap ==
    /\ pc = "local_search"
    /\ ImprovingSwaps(schedule) # {}
    /\ LET fi  == fill_indices(schedule)
           idx == CHOOSE x \in ImprovingSwaps(schedule) :
                      \A y \in ImprovingSwaps(schedule) : x <= y
       IN  schedule' = Swapped(schedule, fi[idx], fi[idx + 1])
    /\ UNCHANGED <<filling_rate, changeover_same_type_hours, changeover_diff_type_hours,
                   lots, strategy, pc, current_time, total_changeover, total_reclean, run_time,
                   last_type, hours_since_reclean, group_idx, i, grouped, metrics>>

\* a pass of `while improved` that finds no improving swap: the loop ends
LocalSearchStop ==
    /\ pc = "local_search"
    /\ ImprovingSwaps(schedule) = {}
    /\ pc' = "cluster"
    /\ UNCHANGED <<filling_rate, changeover_same_type_hours, changeover_diff_type_hours,
                   lots, strategy, schedule, current_time, total_changeover, total_reclean,
                   run_time, last_type, hours_since_reclean, group_idx, i, grouped, metrics>>

\* the inner loop of the clustering pass: the first position j >= from whose
\* entry is not a small fill of the changeover's type
RECURSIVE SmallRunEnd(_, _, _)
SmallRunEnd(s, j, type) ==
    IF /\ j <= Len(s)
       /\ s[j].event_type = "fill"
       /\ s[j].lot_type = type
       /\ s[j].duration_minutes <= PerFillingRate(BATCH_BINPACK_SMALL_LOT_THRESHOLD)
    THEN SmallRunEnd(s, j + 1, type)
    ELSE j

\* `i = j - 1 + len(small_lots)` followed by `i += 1`, on 1-based positions
ClusterResume(j, n) == j + n

\* the clustering loop from position k (1-based) of s
RECURSIVE ClusterFrom(_, _, _)
ClusterFrom(s, k, clustered_schedule) ==
    IF k > Len(s) THEN clustered_schedule
    ELSE LET e == s[k]
         IN  IF e.event_type = "changeover"
             THEN LET j == SmallRunEnd(s, k + 1, e.lot_type)
                      small_lots == SubSeq(s, k + 1, j - 1)
                      sorted == SortedBy(small_lots,
                                    [p \in 1..Len(small_lots) |-> small_lots[p].duration_minutes])
                  IN  ClusterFrom(s, ClusterResume(j, Len(small_lots)),
                                  Append(clustered_schedule, e) \o sorted)
             ELSE ClusterFrom(s, k + 1, Append(clustered_schedule, e))

\* step 5 applied to s
Cluster(s) == ClusterFrom(s, 1, <<>>)

ClusterPass ==
    /\ pc = "cluster"
    /\ schedule' = Cluster(schedule)
    /\ pc' = "metrics"
    /\ UNCHANGED <<filling_rate, changeover_same_type_hours, changeover_diff_type_hours,
                   lots, strategy, current_time, total_changeover, total_reclean, run_time,
                   last_type, hours_since_reclean, group_idx, i, grouped, metrics>>

\* the metrics of batch_binpack_schedule, read off the returned schedule
BinpackReturn ==
    /\ pc = "metrics"
    /\ LET start_time == IF schedule # <<>> THEN schedule[1].start_time ELSE now
           end_time   == IF schedule # <<>> THEN schedule[Len(schedule)].end_time ELSE now
       IN  metrics' = Metrics(TdSub(end_time, start_time),
                              SumDuration(schedule, "changeover"),
                              SumDuration(schedule, "reclean"),
                              SumDuration(schedule, "fill"))
    /\ pc' = "done"
    /\ UNCHANGED <<filling_rate, changeover_same_type_hours, changeover_diff_type_hours,
                   lots, strategy, schedule, current_time, total_changeover, total_reclean,
                   run_time, last_type, hours_since_reclean, group_idx, i, grouped>>

Next ==
    \/ FifoStart
    \/ FifoStep
    \/ FifoReturn
    \/ SptStart
    \/ SptStep
    \/ SptReturn
    \/ HybridStart
    \/ HybridStep
    \/ HybridReturn
    \/ BinpackStart
    \/ GreedyWindow
    \/ LocalSearchSwap
    \/ LocalSearchStop
    \/ ClusterPass
    \/ BinpackReturn

Spec == Init /\ [][Next]_vars

\* the steps of a call under any configuration: those of Next and the
\* exceptions a filling rate of 0 raises
ConfigNext ==
    \/ Next
    \/ FifoRaise
    \/ SptRaise
    \/ HybridRaise
    \/ BinpackRaise

ConfigSpec == ConfigInit /\ [][ConfigNext]_vars

\* the calls under the configurations of ChangeoverChoices
ChangeoverSpec == ChangeoverInit /\ [][Next]_vars

(* ------------------------------ properties ------------------------------ *)
\* the strategy has returned: schedule and metrics are its results
Returned(name) == strategy = name /\ pc = "done"

PerLotStrategies == {"fifo", "spt_only", "hybrid_heuristic"}

\* adjacent activities meet: a[k].end_time = a[k+1].start_time
Contiguous(s) == \A k \in 1..(Len(s) - 1) : s[k].end_time = s[k + 1].start_time

\* the duration of an entry as a timedelta, timedelta(minutes = e.duration_minutes)
DurationDelta(e) == timedelta_minutes(e.duration_minutes)

\* every activity ends at its start plus its duration
EndsAfterDuration(s) ==
    \A k \in 1..Len(s) : s[k].end_time = TdAdd(s[k].start_time, DurationDelta(s[k]))

\* the sum of the durations of all activities of s, as a timedelta
RECURSIVE SumDelta(_)
SumDelta(s) == IF s = <<>> THEN [s |-> 0, us |-> 0]
               ELSE TdAdd(DurationDelta(Head(s)), SumDelta(Tail(s)))

\* last.end_time - first.start_time
Span(s) == TdSub(s[Len(s)].end_time, s[1].start_time)

\* the lot ids of the Fill activities of s, in timeline order
FillIds(s) ==
    LET f == SelectSeq(s, LAMBDA e : e.event_type = "fill")
    IN  [k \in 1..Len(f) |-> f[k].lot_id]

\* the Fill activities of s, in timeline order
Fills(s) == SelectSeq(s, LAMBDA e : e.event_type = "fill")

\* the position of the lot with this id in the input list
InputPos(id) == CHOOSE k \in 1..Len(lots) : lots[k].id = id

\* the number of entries of s equal to e
Count(s, e) == Cardinality({k \in 1..Len(s) : s[k] = e})

\* C1: the timeline returned by FIFO, SPT and Hybrid is contiguous (adjacent
\* activities meet) and every activity ends at its start plus its duration,
\* for every input, the empty list included.
C1_Contiguity ==
    (strategy \in PerLotStrategies /\ pc = "done")
        => (Contiguous(schedule) /\ EndsAfterDuration(schedule))

\* a FIFO run of three lots with a mid-run reclean and changeovers has returned
C1_Witness ==
    /\ Returned("fifo")
    /\ Len(lots) = 3
    /\ NumEntries(schedule, "reclean") = 2
    /\ NumEntries(schedule, "changeover") = 2

\* C2: the timeline returned by the bin-pack strategy is contiguous.
C2_BinpackContiguity == Returned("batch_binpack") => Contiguous(schedule)

\* C3: conservation: in the timeline any strategy returns, the durations of
\* all activities (each at timestamp resolution) add up to the end of the
\* last activity minus the start of the first.
C3_Conservation == pc = "done" => SumDelta(schedule) = Span(schedule)

\* C4: the returned metrics are derived from the returned timeline: each
\* total is the sum of the durations of the activities of its kind (the
\* initial reclean included) and Total Time is the span of the timeline.
C4_MetricsDerived ==
    pc = "done" =>
        /\ metrics.total_reclean = SumDuration(schedule, "reclean")
        /\ metrics.total_changeover = SumDuration(schedule, "changeover")
        /\ metrics.total_fill = SumDuration(schedule, "fill")
        /\ metrics.total_time = Span(schedule)

\* the timeline returned for an empty list: one Reclean of RECLEAN_CYCLE_HOURS
OnlyInitialReclean ==
    /\ Len(schedule) = 1
    /\ schedule[1].event_type = "reclean"
    /\ schedule[1].duration_minutes = RECLEAN_CYCLE_HOURS * 60 * FILLING_RATE_VIALS_PER_MIN
    /\ TdSub(schedule[1].end_time, schedule[1].start_time) = [s |-> RECLEAN_CYCLE_HOURS * 3600, us |-> 0]

\* C5, as stated: for an empty lot list every strategy returns one Reclean
\* of RECLEAN_CYCLE_HOURS and metrics that are all 0.
C5_EmptyAllZero ==
    (pc = "done" /\ lots = <<>>) =>
        /\ OnlyInitialReclean
        /\ metrics.total_time = [s |-> 0, us |-> 0]
        /\ metrics.total_changeover = 0
        /\ metrics.total_reclean = 0
        /\ metrics.total_fill = 0

\* C5, amended: for an empty lot list every strategy runs to its return
\* without getting stuck and returns one Reclean of RECLEAN_CYCLE_HOURS;
\* Total Changeover Time and Total Fill Time are 0, Total Time is the length
\* of that reclean, and Total Reclean Time is 0 for FIFO, SPT and Hybrid and
\* the length of that reclean for bin-pack.
C5_EmptyInput ==
    /\ (lots = <<>> /\ pc # "done") => ENABLED Next
    /\ (lots = <<>> /\ pc = "done") =>
        /\ OnlyInitialReclean
        /\ metrics.total_time = [s |-> RECLEAN_CYCLE_HOURS * 3600, us |-> 0]
        /\ metrics.total_changeover = 0
        /\ metrics.total_fill = 0
        /\ metrics.total_reclean = IF strategy = "batch_binpack"
                                   THEN RECLEAN_CYCLE_HOURS * 60 * FILLING_RATE_VIALS_PER_MIN
                                   ELSE 0

\* bin-pack has returned for the empty list
C5_Witness == Returned("batch_binpack") /\ lots = <<>>

\* C6: FIFO order preservation: the lot ids of the Fill activities of the
\* FIFO timeline, in timeline order, are the ids of the input list in order.
C6_FifoOrder ==
    Returned("fifo") => FillIds(schedule) = [k \in 1..Len(lots) |-> lots[k].id]

\* a FIFO run has returned whose input is not ordered by size and whose
\* timeline has a mid-run reclean and a changeover between the fills
C6_Witness ==
    /\ Returned("fifo")
    /\ Len(lots) >= 3
    /\ lots[1].vials > lots[2].vials
    /\ lots[1].type # lots[3].type
    /\ NumEntries(schedule, "reclean") >= 2

\* C7: SPT ordering: the Fill activities of the SPT timeline are one per
\* input lot, non-decreasing in duration, and fills of equal duration are in
\* input order, whatever the lot types.
C7_SptOrder ==
    Returned("spt_only") =>
        LET f == Fills(schedule)
        IN  /\ Len(f) = Len(lots)
            /\ \A k \in 1..Len(lots) : \E p \in 1..Len(f) : f[p].lot_id = lots[k].id
            /\ \A a, b \in 1..Len(f) :
                 a < b =>
                   /\ f[a].duration_minutes <= f[b].duration_minutes
                   /\ f[a].duration_minutes = f[b].duration_minutes
                        => InputPos(f[a].lot_id) < InputPos(f[b].lot_id)

\* an SPT run has returned whose input has a larger lot before a smaller one
\* and two lots of equal size and different type
C7_Witness ==
    /\ Returned("spt_only")
    /\ Len(lots) >= 3
    /\ lots[1].vials > lots[2].vials
    /\ lots[2].vials = lots[3].vials
    /\ lots[2].type # lots[3].type

\* C8: idempotence of clustering: clustering the output of the clustering
\* pass gives that output again.
C8_ClusterIdempotent ==
    (strategy = "batch_binpack" /\ pc \in {"metrics", "done"})
        => Cluster(schedule) = schedule

\* C9: clustering is a pure reordering: the pass keeps the length and the
\* multiset of activities, leaves every Changeover and Reclean at its
\* position, and moves Fill activities only.
C9_ClusterPureReordering ==
    [][pc = "cluster" =>
         /\ Len(schedule') = Len(schedule)
         /\ \A k \in 1..Len(schedule) :
              /\ Count(schedule', schedule[k]) = Count(schedule, schedule[k])
              /\ schedule[k].event_type # "fill" => schedule'[k] = schedule[k]
         /\ NumEntries(schedule', "changeover") = NumEntries(schedule, "changeover")
         /\ NumEntries(schedule', "reclean") = NumEntries(schedule, "reclean")
         /\ SumDuration(schedule', "changeover") = SumDuration(schedule, "changeover")
         /\ SumDuration(schedule', "reclean") = SumDuration(schedule, "reclean")]_vars

\* C10: bin-pack non-regression: no pass of the local search raises the
\* objective, and every accepted swap strictly decreases it, so that the
\* objective at the end of the phase is at most the objective at its start.
C10_LocalSearchNonRegression ==
    [][pc = "local_search" =>
         /\ ~TdLess(objective(schedule), objective(schedule'))
         /\ schedule' # schedule => TdLess(objective(schedule'), objective(schedule))]_vars

\* the local search has ended after accepting a swap: two fills stand in the
\* timeline against the order of their timestamps
C10_Witness ==
    /\ strategy = "batch_binpack"
    /\ pc = "cluster"
    /\ \E a, b \in 1..Len(schedule) :
         /\ a < b
         /\ schedule[a].event_type = "fill"
         /\ schedule[b].event_type = "fill"
         /\ TdLess(schedule[b].start_time, schedule[a].start_time)

\* the entries of s after its last Reclean
RECURSIVE AfterLastReclean(_)
AfterLastReclean(s) ==
    IF s = <<>> \/ s[Len(s)].event_type = "reclean" THEN <<>>
    ELSE Append(AfterLastReclean(SubSeq(s, 1, Len(s) - 1)), s[Len(s)])

\* the changeover and fill time accumulated in s since its last Reclean
RunSinceReclean(s) ==
    SumDuration(AfterLastReclean(s), "changeover") + SumDuration(AfterLastReclean(s), "fill")

\* the entries a step appends to the timeline
Appended == SubSeq(schedule', Len(schedule) + 1, Len(schedule'))

\* a step of the per-lot loop of FIFO, SPT or Hybrid that schedules a lot
\* other than the first in processing order
LaterLotStep ==
    /\ pc \in {"fifo_loop", "spt_loop", "hybrid_loop"}
    /\ NumEntries(schedule, "fill") >= 1
    /\ schedule' # schedule

\* C11: reclean insertion rule of FIFO, SPT and Hybrid: when a lot other
\* than the first is reached with MAX_CONTINUOUS_RUN_HOURS or more of
\* changeovers and fills accumulated since the last Reclean, one Reclean is
\* inserted before the lot's changeover and fill and the counter restarts
\* from 0; below the limit no Reclean is inserted before the lot.
C11_RecleanRule ==
    [][LaterLotStep =>
         IF RunSinceReclean(schedule) >= HoursToTicks(MAX_CONTINUOUS_RUN_HOURS)
         THEN /\ Appended[1].event_type = "reclean"
              /\ NumEntries(Appended, "reclean") = 1
              /\ hours_since_reclean' = SumDuration(Appended, "changeover")
                                        + SumDuration(Appended, "fill")
         ELSE NumEntries(Appended, "reclean") = 0]_vars

\* the position of the first Fill of s, Len(s) + 1 if s has none
FirstFillPos(s) ==
    CHOOSE k \in 1..(Len(s) + 1) :
        /\ k = Len(s) + 1 \/ s[k].event_type = "fill"
        /\ \A j \in 1..(k - 1) : s[j].event_type # "fill"

\* C12: initial reclean of FIFO and SPT: for every non-empty input the
\* first activity is a Reclean of RECLEAN_CYCLE_HOURS and it is the only
\* Reclean that precedes the first Fill.
C12_InitialReclean ==
    (pc = "done" /\ strategy \in {"fifo", "spt_only"} /\ lots # <<>>) =>
        /\ FirstFillPos(schedule) <= Len(schedule)
        /\ schedule[1].event_type = "reclean"
        /\ schedule[1].duration_minutes = HoursToTicks(RECLEAN_CYCLE_HOURS)
        /\ schedule[1].end_time = TdAdd(schedule[1].start_time, timedelta_hours(RECLEAN_CYCLE_HOURS))
        /\ NumEntries(SubSeq(schedule, 1, FirstFillPos(schedule) - 1), "reclean") = 1

\* C13: FIFO without mid-run reclean: when the fills and changeovers of a
\* non-empty FIFO run add up to less than MAX_CONTINUOUS_RUN_HOURS, the
\* timeline holds exactly one Reclean, the initial one.
C13_FifoNoMidRunReclean ==
    (/\ Returned("fifo")
     /\ lots # <<>>
     /\ SumDuration(schedule, "fill") + SumDuration(schedule, "changeover")
            < HoursToTicks(MAX_CONTINUOUS_RUN_HOURS))
        => /\ NumEntries(schedule, "reclean") = 1
           /\ schedule[1].event_type = "reclean"

\* a FIFO run of three lots, one of them half a clean window long, has
\* returned with a total run below the limit
C13_Witness ==
    /\ Returned("fifo")
    /\ Len(lots) = 3
    /\ \E k \in 1..3 : lots[k].vials = 1200000
    /\ NumEntries(schedule, "changeover") = 2
    /\ SumDuration(schedule, "fill") + SumDuration(schedule, "changeover")
           < HoursToTicks(MAX_CONTINUOUS_RUN_HOURS)

\* C14: changeover rule of FIFO and SPT: a run of L >= 1 lots has exactly
\* L - 1 Changeovers, none before the first Fill; every later Fill is
\* immediately preceded by the one Changeover that separates it from the
\* previous Fill, of CHANGEOVER_SAME_TYPE_HOURS if the two fills have the
\* same type and of CHANGEOVER_DIFF_TYPE_HOURS otherwise; Total Changeover
\* Time is the sum of these durations, 960 minutes for FIFO lots A, B, A.
C14_ChangeoverRule ==
    (pc = "done" /\ strategy \in {"fifo", "spt_only"} /\ lots # <<>>) =>
        LET f == fill_indices(schedule)
        IN  /\ NumEntries(schedule, "changeover") = Len(lots) - 1
            /\ Len(f) >= 1
            /\ NumEntries(SubSeq(schedule, 1, f[1]), "changeover") = 0
            /\ \A p \in 2..Len(f) :
                 LET c == schedule[f[p] - 1]
                 IN  /\ c.event_type = "changeover"
                     /\ NumEntries(SubSeq(schedule, f[p - 1], f[p]), "changeover") = 1
                     /\ c.duration_minutes =
                          HoursToTicks(IF schedule[f[p]].lot_type = schedule[f[p - 1]].lot_type
                                       THEN CHANGEOVER_SAME_TYPE_HOURS
                                       ELSE CHANGEOVER_DIFF_TYPE_HOURS)
                     /\ c.end_time = TdAdd(c.start_time, DurationDelta(c))
            /\ metrics.total_changeover = SumDuration(schedule, "changeover")
            /\ (/\ strategy = "fifo"
                /\ [k \in 1..Len(lots) |-> lots[k].type] = <<"A", "B", "A">>)
                 => metrics.total_changeover = 960 * FILLING_RATE_VIALS_PER_MIN

\* FIFO has returned for the lots (A, 10000), (B, 20000), (A, 10000)
C14_Witness ==
    /\ Returned("fifo")
    /\ [k \in 1..Len(lots) |-> <<lots[k].type, lots[k].vials>>]
         = << <<"A", 10000>>, <<"B", 20000>>, <<"A", 10000>> >>
    /\ metrics.total_changeover = 960 * FILLING_RATE_VIALS_PER_MIN

\* the total vials of the input lots of type t
TypeVials(t) == SumVials(GroupLots(lots, t))

\* the position at which type t first appears in the input
FirstOfType(t) ==
    CHOOSE k \in 1..Len(lots) : lots[k].type = t /\ \A j \in 1..(k - 1) : lots[j].type # t

\* C15: Hybrid ordering: the Fills of a Hybrid timeline are one per input
\* lot; the lots of one type are consecutive; groups come in descending
\* order of their total vials, groups of equal total in order of first
\* appearance of their type in the input; inside a group the fills are in
\* ascending duration, fills of equal duration in input order.
C15_HybridOrder ==
    Returned("hybrid_heuristic") =>
        LET f == Fills(schedule)
        IN  /\ Len(f) = Len(lots)
            /\ \A k \in 1..Len(lots) :
                 \E p \in 1..Len(f) : f[p].lot_id = lots[k].id /\ f[p].lot_type = lots[k].type
            /\ \A a, b, c \in 1..Len(f) :
                 (a < b /\ b < c /\ f[a].lot_type = f[c].lot_type) => f[b].lot_type = f[a].lot_type
            /\ \A a, b \in 1..Len(f) :
                 a < b =>
                   IF f[a].lot_type = f[b].lot_type
                   THEN /\ f[a].duration_minutes <= f[b].duration_minutes
                        /\ f[a].duration_minutes = f[b].duration_minutes
                             => InputPos(f[a].lot_id) < InputPos(f[b].lot_id)
                   ELSE /\ TypeVials(f[a].lot_type) >= TypeVials(f[b].lot_type)
                        /\ TypeVials(f[a].lot_type) = TypeVials(f[b].lot_type)
                             => FirstOfType(f[a].lot_type) < FirstOfType(f[b].lot_type)

\* Hybrid has returned for an input whose types alternate, whose second
\* type has the larger total, and whose first lot is larger than its third
C15_Witness ==
    /\ Returned("hybrid_heuristic")
    /\ Len(lots) = 3
    /\ lots[1].type = lots[3].type
    /\ lots[1].type # lots[2].type
    /\ lots[1].vials > lots[3].vials
    /\ TypeVials(lots[2].type) > TypeVials(lots[1].type)
    /\ FillIds(schedule) = <<"L2", "L3", "L1">>

\* every stretch of s between two Recleans, and after the last one, holds at
\* most BATCH_BINPACK_CLEAN_WINDOW_HOURS of fills and changeovers
WithinCleanWindow(s) ==
    \A k \in 1..Len(s) :
        RunSinceReclean(SubSeq(s, 1, k)) <= HoursToTicks(BATCH_BINPACK_CLEAN_WINDOW_HOURS)

\* C16: clean-window bound: in the timeline bin-pack returns, the Fills and
\* Changeovers between two consecutive Recleans, and after the last Reclean,
\* never add up to more than BATCH_BINPACK_CLEAN_WINDOW_HOURS.
C16_CleanWindowBound == Returned("batch_binpack") => WithinCleanWindow(schedule)

\* C17: configuration error: when FILLING_RATE_VIALS_PER_MIN is zero or
\* negative no call of a strategy returns a timeline and metrics, whatever
\* the lot list: every call ends in an error.
C17_ConfigError == filling_rate <= 0 => pc # "done"

\* C18: every lot is scheduled exactly once: the timeline any strategy
\* returns has exactly one Fill per input lot, with the lot's id and type
\* and a duration of vials / FILLING_RATE_VIALS_PER_MIN, and no other Fill.
C18_EachLotOnce ==
    pc = "done" =>
        LET f == Fills(schedule)
        IN  /\ Len(f) = Len(lots)
            /\ \A k \in 1..Len(lots) :
                 /\ Cardinality({p \in 1..Len(f) : f[p].lot_id = lots[k].id}) = 1
                 /\ \A p \in 1..Len(f) :
                      f[p].lot_id = lots[k].id =>
                        /\ f[p].lot_type = lots[k].type
                        /\ f[p].duration_minutes * filling_rate
                             = lots[k].vials * FILLING_RATE_VIALS_PER_MIN

\* bin-pack has returned for three lots after the local search has moved a
\* Fill and the clustering pass has shortened the timeline
C18_Witness ==
    /\ Returned("batch_binpack")
    /\ Len(lots) = 3
    /\ Len(schedule) < 6
    /\ FillIds(schedule) # FillIds(SortedBy(schedule,
                               [k \in 1..Len(schedule) |-> schedule[k].start_time.s]))

\* the number of lots still waiting in the dictionary g
Remaining(g) ==
    Cardinality(UNION { { <<t, k>> : k \in 1..Len(g.vals[t]) } : t \in DOMAIN g.vals })

\* C19: termination of bin-pack: every pass of the greedy window loop places
\* at least one of the remaining lots, so that the loop ends with every lot
\* in a window, and every accepted swap of the local search strictly lowers
\* the objective, so that the search stops after finitely many swaps.
C19_BinpackTermination ==
    [][/\ pc = "greedy" =>
            /\ Remaining(grouped') < Remaining(grouped)
            /\ NumEntries(schedule', "fill") > NumEntries(schedule, "fill")
       /\ (pc = "local_search" /\ schedule' # schedule) =>
            TdLess(objective(schedule'), objective(schedule))]_vars

\* every Changeover of s is immediately followed by a Fill of the type the
\* Changeover carries
ChangeoversLeadToFill(s) ==
    \A k \in 1..Len(s) :
        s[k].event_type = "changeover" =>
            /\ k < Len(s)
            /\ s[k + 1].event_type = "fill"
            /\ s[k + 1].lot_type = s[k].lot_type

\* C20: changeover destination: in the timeline any of the four strategies
\* returns, every Changeover is immediately followed by a Fill whose
\* lot_type is the lot_type the Changeover carries.
C20_ChangeoverDestination == pc = "done" => ChangeoversLeadToFill(schedule)

\* the last Fill of s
LastFill(s) == Fills(s)[Len(Fills(s))]

\* a pass of the greedy window loop that schedules a window other than the
\* first one
LaterWindowStep ==
    /\ pc = "greedy"
    /\ NumEntries(schedule, "fill") >= 1
    /\ NumEntries(schedule', "fill") > NumEntries(schedule, "fill")

\* C21: carry-over changeover between bin-pack windows: when the first lot
\* of a window other than the first has a type different from the last lot
\* filled in the previous window, the greedy phase emits a Changeover to
\* that lot's type directly before its Fill.
C21_CarryOverChangeover ==
    [][LaterWindowStep =>
         LET k == Len(schedule) + FirstFillPos(Appended)
         IN  LastFill(schedule).lot_type # schedule'[k].lot_type =>
               /\ schedule'[k - 1].event_type = "changeover"
               /\ schedule'[k - 1].lot_type = schedule'[k].lot_type]_vars

\* the window the next pass of the greedy loop closes: the result of the scan
\* over every type group, with the lots the scan leaves in the dictionary
ClosedWindow ==
    ScanGroups(grouped.keys, 1, grouped,
               [window |-> <<>>, time |-> 0, previous_lot |-> NoLot])

\* the lots of the dictionary g
GroupedLots(g) == UNION { { g.vals[t][k] : k \in 1..Len(g.vals[t]) } : t \in DOMAIN g.vals }

\* C22: window maximality: at the moment a clean window is closed, no lot
\* that is still unscheduled fits in it: for every remaining lot the window
\* time plus the lot's fill time plus the changeover from the last admitted
\* lot exceeds BATCH_BINPACK_CLEAN_WINDOW_HOURS, for every configuration
\* with non-negative changeover hours.
C22_WindowMaximality ==
    (strategy = "batch_binpack" /\ pc = "greedy" /\ AnyGrouped(grouped)) =>
        \A lot \in GroupedLots(ClosedWindow.grouped) :
            ClosedWindow.w.time + calculate_fill_time(lot)
                + HoursToTicks(calculate_changeover(ClosedWindow.w.previous_lot, lot))
              > HoursToTicks(BATCH_BINPACK_CLEAN_WINDOW_HOURS)

\* C23: Hybrid changeover cost agrees with type adjacency: two consecutive
\* groups of a Hybrid timeline never have the same type, so a Changeover
\* lasts CHANGEOVER_DIFF_TYPE_HOURS exactly when the Fill after it and the
\* nearest Fill before it differ in type, and CHANGEOVER_SAME_TYPE_HOURS
\* exactly when they have the same type.
C23_HybridTypeAdjacency ==
    Returned("hybrid_heuristic") =>
        /\ \A p \in 1..(Len(group_order) - 1) : group_order[p] # group_order[p + 1]
        /\ \A k \in 1..Len(schedule) :
             schedule[k].event_type = "changeover" =>
                 /\ k < Len(schedule)
                 /\ schedule[k + 1].event_type = "fill"
                 /\ NumEntries(SubSeq(schedule, 1, k - 1), "fill") >= 1
                 /\ LET differ == LastFill(SubSeq(schedule, 1, k - 1)).lot_type
                                    # schedule[k + 1].lot_type
                    IN  /\ schedule[k].duration_minutes = HoursToTicks(CHANGEOVER_DIFF_TYPE_HOURS)
                             <=> differ
                        /\ schedule[k].duration_minutes = HoursToTicks(CHANGEOVER_SAME_TYPE_HOURS)
                             <=> ~differ

\* Hybrid has returned a timeline of two groups with a Changeover between
\* the groups and a Changeover inside a group
C23_Witness ==
    /\ Returned("hybrid_heuristic")
    /\ Len(group_order) = 2
    /\ \E a, b \in 1..Len(schedule) :
         /\ schedule[a].event_type = "changeover"
         /\ schedule[b].event_type = "changeover"
         /\ schedule[a].duration_minutes = HoursToTicks(CHANGEOVER_DIFF_TYPE_HOURS)
         /\ schedule[b].duration_minutes = HoursToTicks(CHANGEOVER_SAME_TYPE_HOURS)

\* no two Reclean activities of s are adjacent
NoAdjacentRecleans(s) ==
    \A k \in 1..(Len(s) - 1) :
        ~(s[k].event_type = "reclean" /\ s[k + 1].event_type = "reclean")

\* C24: reclean placement in bin-pack: for every non-empty input the greedy
\* phase emits one Reclean after each window except the last and none after
\* the last, so that no two Reclean activities are adjacent in the timeline
\* and the last activity of the returned timeline is a Fill.
C24_RecleanPlacement ==
    (strategy = "batch_binpack" /\ lots # <<>>) =>
        /\ NoAdjacentRecleans(schedule)
        /\ pc = "done" => schedule[Len(schedule)].event_type = "fill"

\* C25: run-hours counter of FIFO, SPT and Hybrid: at every step of the
\* per-lot loop hours_since_reclean equals the sum of the durations of the
\* Changeover and Fill activities appended since the most recent Reclean (or
\* since the start); it is never negative and is 0 right after a Reclean.
C25_RunHoursCounter ==
    pc \in {"fifo_loop", "spt_loop", "hybrid_loop"} =>
        /\ hours_since_reclean = RunSinceReclean(schedule)
        /\ hours_since_reclean >= 0
        /\ schedule[Len(schedule)].event_type = "reclean" => hours_since_reclean = 0

\* a per-lot loop has inserted a Reclean in mid-run and has appended a
\* Changeover and a Fill after it
C25_Witness ==
    /\ pc \in {"fifo_loop", "spt_loop", "hybrid_loop"}
    /\ NumEntries(schedule, "fill") >= 2
    /\ Len(schedule) >= 3
    /\ schedule[Len(schedule) - 2].event_type = "reclean"
    /\ schedule[Len(schedule) - 1].event_type = "changeover"
    /\ hours_since_reclean = schedule[Len(schedule) - 1].duration_minutes
                               + schedule[Len(schedule)].duration_minutes

====
